---- MODULE Spec2Model ----
(***************************************************************************)
(* Model of workwithbaby's VoiceAssistant (src/voiceassistant.py): the     *)
(* task list tools, send_slack_message, and read_slack_messages with its   *)
(* regular-expression message recovery.  Text is a sequence of             *)
(* one-character strings; positions are 1-based, "end" positions are one   *)
(* past the last consumed character.                                       *)
(***************************************************************************)
EXTENDS Integers, Sequences, FiniteSets, TLC

\* ------------------------------------------------------------------------
\* Character classes of Python's re module, restricted to ASCII
\* ------------------------------------------------------------------------
UpperChars == {"A","B","C","D","E","F","G","H","I","J","K","L","M",
               "N","O","P","Q","R","S","T","U","V","W","X","Y","Z"}

LowerChars == {"a","b","c","d","e","f","g","h","i","j","k","l","m",
               "n","o","p","q","r","s","t","u","v","w","x","y","z"}

DigitChars == {"0","1","2","3","4","5","6","7","8","9"}

\* \w
WordChars == UpperChars \cup LowerChars \cup DigitChars \cup {"_"}

\* \s, and the characters str.strip() removes
SpaceChars == {" ", "\t", "\n", "\r", "\f"}

Quote == "\""

Colon == ":"

Newline == "\n"

Min(S) == CHOOSE x \in S : \A y \in S : x <= y

Max(S) == CHOOSE x \in S : \A y \in S : x >= y

\* Greedy run of a character class: the first position >= i whose character
\* is outside S (Len+1 when the run reaches the end of the text).
RunEnd(text, i, S) ==
    LET stops == {k \in i..Len(text) : text[k] \notin S}
    IN  IF stops = {} THEN Len(text) + 1 ELSE Min(stops)

\* Greedy run of a negated class: the first position >= i whose character
\* is in S (Len+1 when there is none).
StopAt(text, i, S) ==
    LET stops == {k \in i..Len(text) : text[k] \in S}
    IN  IF stops = {} THEN Len(text) + 1 ELSE Min(stops)

\* A literal of the pattern at position i.
HasLit(text, i, lit) ==
    /\ i >= 1
    /\ i + Len(lit) - 1 <= Len(text)
    /\ \A k \in 1..Len(lit) : text[i + k - 1] = lit[k]

\* str.strip()
Strip(s) ==
    LET keep == {k \in 1..Len(s) : s[k] \notin SpaceChars}
    IN  IF keep = {} THEN <<>> ELSE SubSeq(s, Min(keep), Max(keep))

\* re.match(r"^U[A-Z0-9]{8,}$", username): '$' also matches just before a
\* newline that ends the string.
MinIdTail == 8

IdShape(s) ==
    /\ Len(s) >= 1 + MinIdTail
    /\ s[1] = "U"
    /\ \A k \in 2..Len(s) : s[k] \in UpperChars \cup DigitChars

IsUserId(s) ==
    \/ IdShape(s)
    \/ /\ Len(s) >= 1
       /\ s[Len(s)] = Newline
       /\ IdShape(SubSeq(s, 1, Len(s) - 1))

\* ------------------------------------------------------------------------
\* The three message patterns
\* ------------------------------------------------------------------------
NoMatch == [ok |-> FALSE, username |-> <<>>, message |-> <<>>, end |-> 0]

\* The common tail  \s{minWs,} "? ([^"]+) "?  started at position p.
\* Greedy whitespace, then the optional quote, then a maximal run of
\* non-quote characters; when that run would be empty the engine backtracks
\* and hands the last whitespace character to the group.
QuotedTail(text, p, minWs) ==
    LET n == Len(text)
        q == RunEnd(text, p, SpaceChars)
        w == q - p
        quoted == q <= n /\ text[q] = Quote
        s == IF quoted THEN q + 1 ELSE q
    IN  IF w >= minWs /\ s <= n /\ text[s] # Quote
        THEN LET r == StopAt(text, s, {Quote})
             IN  [ok |-> TRUE, message |-> SubSeq(text, s, r - 1),
                  end |-> IF r <= n THEN r + 1 ELSE r]
        ELSE IF w >= 1 /\ w - 1 >= minWs
        THEN [ok |-> TRUE, message |-> SubSeq(text, q - 1, q - 1),
              end |-> IF quoted THEN q + 1 ELSE q]
        ELSE [ok |-> FALSE, message |-> <<>>, end |-> 0]

LitUser == <<"u","s","e","r",":">>

LitSender == <<"s","e","n","d","e","r",":">>

LitText == <<"t","e","x","t",":">>

\* ,?\s*text:\s*"?([^"]+)"?   after a username that ends before position pos
LabelRest(text, pos) ==
    LET n == Len(text)
        p1 == IF pos <= n /\ text[pos] = "," THEN pos + 1 ELSE pos
        p2 == RunEnd(text, p1, SpaceChars)
    IN  IF HasLit(text, p2, LitText)
        THEN QuotedTail(text, p2 + Len(LitText), 0)
        ELSE [ok |-> FALSE, message |-> <<>>, end |-> 0]

\* (?:user|sender):\s*(\w+),?\s*text:\s*"?([^"]+)"?
MatchLabel(text, i) ==
    LET a == IF HasLit(text, i, LitUser) THEN i + Len(LitUser)
             ELSE IF HasLit(text, i, LitSender) THEN i + Len(LitSender)
             ELSE 0
        b == RunEnd(text, a, SpaceChars)
        c == RunEnd(text, b, WordChars)
        \* \w+ is greedy and gives characters back until the rest matches
        ks == {k \in 1..(c - b) : LabelRest(text, b + k).ok}
    IN  IF a = 0 \/ ks = {} THEN NoMatch
        ELSE LET k == Max(ks)
                 t == LabelRest(text, b + k)
             IN  [ok |-> TRUE, username |-> SubSeq(text, b, b + k - 1),
                  message |-> t.message, end |-> t.end]

\* (\w+):\s+"?([^"]+)"?
MatchSimple(text, i) ==
    LET n == Len(text)
        j == RunEnd(text, i, WordChars)
    IN  IF j > i /\ j <= n /\ text[j] = Colon
        THEN LET t == QuotedTail(text, j + 1, 1)
             IN  IF t.ok
                 THEN [ok |-> TRUE, username |-> SubSeq(text, i, j - 1),
                       message |-> t.message, end |-> t.end]
                 ELSE NoMatch
        ELSE NoMatch

\* \d+\.\s+([^:]+):\s+(.+?)(?=\n\d+\.|\n|$)
MatchNumbered(text, i) ==
    LET n == Len(text)
        d == RunEnd(text, i, DigitChars)
        b == RunEnd(text, d + 1, SpaceChars)
        c == StopAt(text, b, {Colon})
        \* an empty [^:]+ takes the last whitespace character back from \s+
        u == IF c > b THEN b ELSE b - 1
        q == RunEnd(text, c + 1, SpaceChars)
        \* \s+ gives characters back until '.' can match one
        ks == {k \in 1..(q - (c + 1)) :
                  c + 1 + k <= n /\ text[c + 1 + k] # Newline}
    IN  IF /\ d > i /\ d <= n /\ text[d] = "."
           /\ b > d + 1
           /\ c <= n
           /\ u > d + 1
           /\ ks # {}
        THEN LET s == c + 1 + Max(ks)
                 e == StopAt(text, s + 1, {Newline})
             IN  [ok |-> TRUE, username |-> SubSeq(text, u, c - 1),
                  message |-> SubSeq(text, s, e - 1), end |-> e]
        ELSE NoMatch

NumPatterns == 3

\* message_patterns, in list order
MatchAt(p, text, i) ==
    CASE p = 1 -> MatchLabel(text, i)
      [] p = 2 -> MatchSimple(text, i)
      [] p = 3 -> MatchNumbered(text, i)

\* re.findall(pattern, text): leftmost non-overlapping matches
RECURSIVE FindAllFrom(_, _, _)
FindAllFrom(p, text, i) ==
    IF i > Len(text) THEN <<>>
    ELSE LET m == MatchAt(p, text, i)
         IN  IF m.ok
             THEN <<[username |-> m.username, message |-> m.message]>>
                      \o FindAllFrom(p, text, m.end)
             ELSE FindAllFrom(p, text, i + 1)

FindAll(p, text) == FindAllFrom(p, text, 1)

\* ------------------------------------------------------------------------
\* The extraction of read_slack_messages
\* ------------------------------------------------------------------------
Placeholder == <<"U","s","e","r">>

\* f"{username}: {message}"
FormatEntry(username, message) == username \o <<Colon, " ">> \o message

\* The body of the loop over one pattern's matches: the user-ID clean-up
\* and the formatting; the username is used as captured.
PatternEntry(m) ==
    FormatEntry(IF IsUserId(m.username) THEN Placeholder ELSE m.username,
                Strip(m.message))

RECURSIVE EntriesOf(_)
EntriesOf(matches) ==
    IF matches = <<>> THEN <<>>
    ELSE <<PatternEntry(Head(matches))>> \o EntriesOf(Tail(matches))

\* for pattern in message_patterns: every pattern whose findall is non-empty
\* appends its entries; the loop has no break.
RECURSIVE PatternCandidatesFrom(_, _)
PatternCandidatesFrom(p, text) ==
    IF p > NumPatterns THEN <<>>
    ELSE EntriesOf(FindAll(p, text)) \o PatternCandidatesFrom(p + 1, text)

PatternCandidates(text) == PatternCandidatesFrom(1, text)

\* combined_response.split("\n")
RECURSIVE SplitLines(_)
SplitLines(text) ==
    LET k == StopAt(text, 1, {Newline})
    IN  IF k > Len(text) THEN <<text>>
        ELSE <<SubSeq(text, 1, k - 1)>>
                 \o SplitLines(SubSeq(text, k + 1, Len(text)))

MinLineLen == 10

\* the line filter of the fallback
LineQualifies(line) ==
    /\ \E k \in 1..Len(line) : line[k] = Colon
    /\ Len(line) > MinLineLen

\* variant: the line is split at its last ':' (rsplit)
LineEntrySplitLast(line) ==
    LET k == Max({j \in 1..Len(line) : line[j] = Colon})
    IN  FormatEntry(Strip(SubSeq(line, 1, k - 1)),
                    Strip(SubSeq(line, k + 1, Len(line))))

\* line.split(":", 1), the user-ID clean-up on the stripped username, and the
\* formatting with both parts stripped
LineEntry(line) ==
    LET k == StopAt(line, 1, {Colon})
        username == SubSeq(line, 1, k - 1)
        message == SubSeq(line, k + 1, Len(line))
    IN  FormatEntry(IF IsUserId(Strip(username)) THEN Strip(Placeholder)
                    ELSE Strip(username),
                    Strip(message))

RECURSIVE LineEntries(_)
LineEntries(lines) ==
    IF lines = <<>> THEN <<>>
    ELSE (IF LineQualifies(Head(lines)) THEN <<LineEntry(Head(lines))>>
          ELSE <<>>) \o LineEntries(Tail(lines))

LineCandidates(text) == LineEntries(SplitLines(text))

\* variant: the line fallback is never tried
CleanMessagesNoFallback(text) == PatternCandidates(text)

\* clean_messages after both stages
CleanMessages(text) ==
    LET found == PatternCandidates(text)
    IN  IF found = <<>> THEN LineCandidates(text) ELSE found

Range(s) == {s[k] : k \in 1..Len(s)}

\* for msg in clean_messages: if msg not in unique_messages: append
RECURSIVE UniqueFrom(_, _)
UniqueFrom(acc, rest) ==
    IF rest = <<>> THEN acc
    ELSE UniqueFrom(IF Head(rest) \in Range(acc) THEN acc
                    ELSE Append(acc, Head(rest)),
                    Tail(rest))

\* variant: no membership test before the append
UniqueMessagesKeepAll(clean) == clean

UniqueMessages(clean) == UniqueFrom(<<>>, clean)

\* variant: the slice keeps one entry too many
TakeOneMore(s, count) ==
    SubSeq(s, 1, IF count + 1 < Len(s) THEN count + 1 ELSE Len(s))

\* unique_messages[:count] for count >= 0
Take(s, count) == SubSeq(s, 1, IF count < Len(s) THEN count ELSE Len(s))

\* "\n".join(final_messages)
RECURSIVE JoinLines(_)
JoinLines(msgs) ==
    IF msgs = <<>> THEN <<>>
    ELSE IF Len(msgs) = 1 THEN Head(msgs)
    ELSE Head(msgs) \o <<Newline>> \o JoinLines(Tail(msgs))

\* " ".join(raw_content)
RECURSIVE JoinSpace(_)
JoinSpace(parts) ==
    IF parts = <<>> THEN <<>>
    ELSE IF Len(parts) = 1 THEN Head(parts)
    ELSE Head(parts) \o <<" ">> \o JoinSpace(Tail(parts))

\* ------------------------------------------------------------------------
\* Inputs: the text of the events the Slack agent run may stream
\* ------------------------------------------------------------------------
\* '1. Carol: status update\n2. Dave: looks good'
FragNumbered ==
    <<"1","."," ","C","a","r","o","l",":"," ","s","t","a","t","u","s"," ",
      "u","p","d","a","t","e","\n","2","."," ","D","a","v","e",":"," ",
      "l","o","o","k","s"," ","g","o","o","d">>

\* 'Alice: good morning\nBob: good morning'
FragLines ==
    <<"A","l","i","c","e",":"," ","g","o","o","d"," ","m","o","r","n","i",
      "n","g","\n","B","o","b",":"," ","g","o","o","d"," ","m","o","r",
      "n","i","n","g">>

\* 'U0123456789: secret note'
FragUserId ==
    <<"U","0","1","2","3","4","5","6","7","8","9",":"," ","s","e","c","r",
      "e","t"," ","n","o","t","e">>

\* 'no structured content here'
FragProse ==
    <<"n","o"," ","s","t","r","u","c","t","u","r","e","d"," ","c","o","n",
      "t","e","n","t"," ","h","e","r","e">>

\* 'user: hi there, text: hello world'
FragLabel ==
    <<"u","s","e","r",":"," ","h","i"," ","t","h","e","r","e",","," ","t",
      "e","x","t",":"," ","h","e","l","l","o"," ","w","o","r","l","d">>

\* '1. U12345678 : hello'
FragSpacedId ==
    <<"1","."," ","U","1","2","3","4","5","6","7","8"," ",":"," ","h","e",
      "l","l","o">>

\* 'sender: U12345678, text: "hello"'
FragLabelId ==
    <<"s","e","n","d","e","r",":"," ","U","1","2","3","4","5","6","7","8",
      ","," ","t","e","x","t",":"," ","\"","h","e","l","l","o","\"">>

\* 'U1234567: seven'
FragShortId ==
    <<"U","1","2","3","4","5","6","7",":"," ","s","e","v","e","n">>

\* 'Bob : at 10:30'
FragFallback ==
    <<"B","o","b"," ",":"," ","a","t"," ","1","0",":","3","0">>

\* '1. Eve: ok'
FragOneItem ==
    <<"1","."," ","E","v","e",":"," ","o","k">>

\* 'x :y'
FragShort ==
    <<"x"," ",":","y">>

\* 'U12345678 : note'
FragPlainId ==
    <<"U","1","2","3","4","5","6","7","8"," ",":"," ","n","o","t","e">>

\* 'Bob : at 9'
FragTenChars ==
    <<"B","o","b"," ",":"," ","a","t"," ","9">>

Fragments ==
    {FragNumbered,
     FragLines,
     FragUserId,
     FragProse,
     FragLabel,
     FragSpacedId,
     FragLabelId,
     FragShortId,
     FragFallback,
     FragOneItem,
     FragShort,
     FragPlainId,
     FragTenChars}

\* expected entries of the two worked examples
EntryCarol ==
    <<"C","a","r","o","l",":"," ","s","t","a","t","u","s"," ","u","p","d","a","t","e">>

EntryDave ==
    <<"D","a","v","e",":"," ","l","o","o","k","s"," ","g","o","o","d">>

EntryAlice ==
    <<"A","l","i","c","e",":"," ","g","o","o","d"," ","m","o","r","n","i","n","g">>

EntryBob ==
    <<"B","o","b",":"," ","g","o","o","d"," ","m","o","r","n","i","n","g">>

\* ------------------------------------------------------------------------
\* Bounds
\* ------------------------------------------------------------------------
\* events one agent run streams
MaxEvents == 2

\* largest count a caller asks for
MaxCount == 3

\* add_task calls in one behaviour
MaxAdds == 3

\* tool calls of the task list that may be in flight together
NumCallers == 2

\* ------------------------------------------------------------------------
\* State
\* ------------------------------------------------------------------------
VARIABLES
    tasks,            \* self.tasks; each element carries the number of the
                      \* add_task call that appended it (history tag n)
    adds,             \* add_task calls so far
    tpc,              \* per caller: where its task tool call stands
    tlocal,           \* per caller: the local 'task' live across the await
    tlast,            \* the latest step of a task tool: the index a
                      \* remove_task call was given, or the value returned
    pc,               \* where the Slack tool call in flight stands (the
                      \* send_slack_message positions are named send_...)
    channel,          \* its argument channel
    count,            \* the argument count of read_slack_messages
    exit_stack,       \* the Slack agent connection: none / open / closed
    events,           \* events received from runner.run_async
    raw_content,
    combined_response,
    clean_messages,
    unique_messages,
    final_messages,
    exc,              \* the exception in flight, if any
    result            \* the value returned to the caller

taskVars == <<tasks, adds, tpc, tlocal, tlast>>

slackVars == <<pc, channel, count, exit_stack, events, raw_content,
               combined_response, clean_messages, unique_messages,
               final_messages, exc, result>>

vars == <<tasks, adds, tpc, tlocal, tlast, pc, channel, count, exit_stack,
          events, raw_content, combined_response, clean_messages,
          unique_messages, final_messages, exc, result>>

Callers == 1..NumCallers

TaskTexts == {"buy milk", "call mom"}

\* indices a caller may pass: below, inside and above 1..len(tasks)
Indices(list) == (-1)..(Len(list) + 1)

NoLast == [index |-> 0, ret |-> "", task |-> ""]

\* channel_id_map.keys()
allowed_channels == {"mcptest", "general", "random"}

\* channels a caller may pass
Channels == {"general", "secret"}

Counts == 1..MaxCount

NoResult == [kind |-> "none", channel |-> "", body |-> <<>>]

Init ==
    /\ tasks = <<>>
    /\ adds = 0
    /\ tpc = [c \in Callers |-> "idle"]
    /\ tlocal = [c \in Callers |-> ""]
    /\ tlast = NoLast
    /\ pc = "idle"
    /\ channel = ""
    /\ count = 0
    /\ exit_stack = "none"
    /\ events = 0
    /\ raw_content = <<>>
    /\ combined_response = <<>>
    /\ clean_messages = <<>>
    /\ unique_messages = <<>>
    /\ final_messages = <<>>
    /\ exc = "none"
    /\ result = NoResult

\* ------------------------------------------------------------------------
\* Task list tools.  A call runs without suspension up to its
\* 'await context.session.say(...)' and from there to its return.
\* ------------------------------------------------------------------------
\* variant: pop(index) with the 1-based index
PopAtOffByOne(list, idx) ==
    [k \in 1..(Len(list) - 1) |-> IF k < idx + 2 THEN list[k] ELSE list[k + 1]]

\* list.pop(idx) for an index the list has; a negative idx counts from the end
PopAt(list, idx) ==
    LET pos == IF idx < 0 THEN Len(list) + idx + 1 ELSE idx + 1
    IN  [k \in 1..(Len(list) - 1) |-> IF k < pos THEN list[k] ELSE list[k + 1]]

ItemAt(list, idx) ==
    list[IF idx < 0 THEN Len(list) + idx + 1 ELSE idx + 1]

\* the positions list.pop(idx) accepts; any other raises IndexError
PopInRange(idx, list) == -Len(list) <= idx /\ idx < Len(list)

\* variant: the lower bound of the check is missing
ValidIdxNoLower(idx, list) == idx < Len(list)

\* 0 <= idx < len(self.tasks)
ValidIdx(idx, list) == 0 <= idx /\ idx < Len(list)

\* add_task up to its await: self.tasks.append(task)
AddTask(c, task) ==
    /\ tpc[c] = "idle"
    /\ adds < MaxAdds
    /\ tasks' = Append(tasks, [text |-> task, n |-> adds + 1])
    /\ adds' = adds + 1
    /\ tlocal' = [tlocal EXCEPT ![c] = task]
    /\ tlast' = NoLast
    /\ tpc' = [tpc EXCEPT ![c] = "add_say"]
    /\ UNCHANGED slackVars

\* add_task after its await: return f"Added task: {task}"
AddTaskReturn(c) ==
    /\ tpc[c] = "add_say"
    /\ tlast' = [index |-> 0, ret |-> "Added task", task |-> tlocal[c]]
    /\ tlocal' = [tlocal EXCEPT ![c] = ""]
    /\ tpc' = [tpc EXCEPT ![c] = "idle"]
    /\ UNCHANGED <<tasks, adds>>
    /\ UNCHANGED slackVars

\* remove_task up to its await: the bounds check and, inside it, the pop,
\* with no suspension between the two; a pop outside the list would raise
\* IndexError out of the call
RemoveTask(c, index) ==
    LET idx == index - 1
    IN  /\ tpc[c] = "idle"
        /\ tlast' = [index |-> index, ret |-> "", task |-> ""]
        /\ IF ValidIdx(idx, tasks) /\ PopInRange(idx, tasks)
           THEN /\ tasks' = PopAt(tasks, idx)
                /\ tlocal' = [tlocal EXCEPT ![c] = ItemAt(tasks, idx).text]
                /\ tpc' = [tpc EXCEPT ![c] = "remove_say"]
           ELSE IF ValidIdx(idx, tasks)
           THEN /\ tasks' = tasks
                /\ tlocal' = tlocal
                /\ tpc' = [tpc EXCEPT ![c] = "raised"]
           ELSE /\ tasks' = tasks
                /\ tlocal' = tlocal
                /\ tpc' = [tpc EXCEPT ![c] = "invalid_say"]
        /\ UNCHANGED adds
        /\ UNCHANGED slackVars

\* remove_task after its await on the valid branch:
\* return f"Removed task: {task}"
RemoveTaskReturn(c) ==
    /\ tpc[c] = "remove_say"
    /\ tlast' = [index |-> 0, ret |-> "Removed task", task |-> tlocal[c]]
    /\ tlocal' = [tlocal EXCEPT ![c] = ""]
    /\ tpc' = [tpc EXCEPT ![c] = "idle"]
    /\ UNCHANGED <<tasks, adds>>
    /\ UNCHANGED slackVars

\* remove_task after its await on the invalid branch:
\* return "Invalid task index"
RemoveTaskInvalidReturn(c) ==
    /\ tpc[c] = "invalid_say"
    /\ tlast' = [index |-> 0, ret |-> "Invalid task index", task |-> ""]
    /\ tpc' = [tpc EXCEPT ![c] = "idle"]
    /\ UNCHANGED <<tasks, adds, tlocal>>
    /\ UNCHANGED slackVars

\* check_tasks up to its await: the text to say is built from self.tasks
CheckTasks(c) ==
    /\ tpc[c] = "idle"
    /\ tlast' = NoLast
    /\ tpc' = [tpc EXCEPT ![c] = "check_say"]
    /\ UNCHANGED <<tasks, adds, tlocal>>
    /\ UNCHANGED slackVars

\* check_tasks after its await: return self.tasks (the list itself, no copy)
CheckTasksReturn(c) ==
    /\ tpc[c] = "check_say"
    /\ tlast' = [index |-> 0, ret |-> "self.tasks", task |-> ""]
    /\ tpc' = [tpc EXCEPT ![c] = "idle"]
    /\ UNCHANGED <<tasks, adds, tlocal>>
    /\ UNCHANGED slackVars

\* ------------------------------------------------------------------------
\* read_slack_messages
\* ------------------------------------------------------------------------
Failures == {"connect", "stream", "close"}

\* variant: only the connection attempt is inside the try block
CatchesConnectOnly(e) == e = "connect"

\* except Exception as e: every failure of the agent run is an Exception
Catches(e) == e \in Failures

\* where control goes when e is raised inside the try block
OnRaise(e) == IF Catches(e) THEN "handler" ELSE "raised"

\* variant: the channel check lets every channel through
ValidChannelAny(ch) == TRUE

\* channel in allowed_channels
ValidChannel(ch) == ch \in allowed_channels

\* the call with a channel outside allowed_channels
ReadInvalidChannel(ch, cnt) ==
    /\ pc = "idle"
    /\ ~ValidChannel(ch)
    /\ channel' = ch
    /\ count' = cnt
    /\ result' = [kind |-> "invalid_channel", channel |-> ch, body |-> <<>>]
    /\ pc' = "returned"
    /\ UNCHANGED <<exit_stack, events, raw_content, combined_response,
                   clean_messages, unique_messages, final_messages, exc>>
    /\ UNCHANGED taskVars

\* the call with an allowed channel, up to 'await get_slack_agent_async()'
ReadBegin(ch, cnt) ==
    /\ pc = "idle"
    /\ ValidChannel(ch)
    /\ channel' = ch
    /\ count' = cnt
    /\ pc' = "connecting"
    /\ UNCHANGED <<exit_stack, events, raw_content, combined_response,
                   clean_messages, unique_messages, final_messages, exc,
                   result>>
    /\ UNCHANGED taskVars

\* get_slack_agent_async() returns the agent and its exit stack
ConnectOk ==
    /\ pc = "connecting"
    /\ exit_stack' = "open"
    /\ pc' = "streaming"
    /\ UNCHANGED <<channel, count, events, raw_content, combined_response,
                   clean_messages, unique_messages, final_messages, exc,
                   result>>
    /\ UNCHANGED taskVars

\* get_slack_agent_async() raises
ConnectFail ==
    /\ pc = "connecting"
    /\ exc' = "connect"
    /\ pc' = OnRaise("connect")
    /\ UNCHANGED <<channel, count, exit_stack, events, raw_content,
                   combined_response, clean_messages, unique_messages,
                   final_messages, result>>
    /\ UNCHANGED taskVars

\* one iteration of 'async for event in events_async' with content text
StreamEvent(text) ==
    /\ pc = "streaming"
    /\ events < MaxEvents
    /\ events' = events + 1
    /\ raw_content' = Append(raw_content, text)
    /\ UNCHANGED <<pc, channel, count, exit_stack, combined_response,
                   clean_messages, unique_messages, final_messages, exc,
                   result>>
    /\ UNCHANGED taskVars

\* one iteration with an event that has no content
StreamEventNoContent ==
    /\ pc = "streaming"
    /\ events < MaxEvents
    /\ events' = events + 1
    /\ UNCHANGED <<pc, channel, count, exit_stack, raw_content,
                   combined_response, clean_messages, unique_messages,
                   final_messages, exc, result>>
    /\ UNCHANGED taskVars

\* the event stream raises
StreamFail ==
    /\ pc = "streaming"
    /\ exc' = "stream"
    /\ pc' = OnRaise("stream")
    /\ UNCHANGED <<channel, count, exit_stack, events, raw_content,
                   combined_response, clean_messages, unique_messages,
                   final_messages, result>>
    /\ UNCHANGED taskVars

\* the event stream is exhausted
StreamEnd ==
    /\ pc = "streaming"
    /\ pc' = "closing"
    /\ UNCHANGED <<channel, count, exit_stack, events, raw_content,
                   combined_response, clean_messages, unique_messages,
                   final_messages, exc, result>>
    /\ UNCHANGED taskVars

\* await exit_stack.aclose() returns
CloseOk ==
    /\ pc = "closing"
    /\ exit_stack' = "closed"
    /\ pc' = "extract"
    /\ UNCHANGED <<channel, count, events, raw_content, combined_response,
                   clean_messages, unique_messages, final_messages, exc,
                   result>>
    /\ UNCHANGED taskVars

\* await exit_stack.aclose() raises; the stack has unwound
CloseFail ==
    /\ pc = "closing"
    /\ exit_stack' = "closed"
    /\ exc' = "close"
    /\ pc' = OnRaise("close")
    /\ UNCHANGED <<channel, count, events, raw_content, combined_response,
                   clean_messages, unique_messages, final_messages, result>>
    /\ UNCHANGED taskVars

\* the synchronous rest of the try block: join, extract, the sentinel
\* check, de-duplication, truncation and the return
Extract ==
    LET combined == JoinSpace(raw_content)
        clean == CleanMessages(combined)
        unique == UniqueMessages(clean)
        final == Take(unique, count)
    IN  /\ pc = "extract"
        /\ combined_response' = combined
        /\ clean_messages' = clean
        /\ IF clean = <<>>
           THEN /\ result' = [kind |-> "sentinel", channel |-> channel,
                              body |-> <<>>]
                /\ UNCHANGED <<unique_messages, final_messages>>
           ELSE /\ unique_messages' = unique
                /\ final_messages' = final
                /\ result' = [kind |-> "messages", channel |-> channel,
                              body |-> JoinLines(final)]
        /\ pc' = "returned"
        /\ UNCHANGED <<channel, count, exit_stack, events, raw_content, exc>>
        /\ UNCHANGED taskVars

\* the except block: log, say, return error_message
Handler ==
    /\ pc = "handler"
    /\ result' = [kind |-> "error", channel |-> channel, body |-> <<>>]
    /\ pc' = "returned"
    /\ UNCHANGED <<channel, count, exit_stack, events, raw_content,
                   combined_response, clean_messages, unique_messages,
                   final_messages, exc>>
    /\ UNCHANGED taskVars

\* the caller has the result; the call's locals are gone
ReadDone ==
    /\ pc = "returned"
    /\ pc' = "idle"
    /\ channel' = ""
    /\ count' = 0
    /\ exit_stack' = "none"
    /\ events' = 0
    /\ raw_content' = <<>>
    /\ combined_response' = <<>>
    /\ clean_messages' = <<>>
    /\ unique_messages' = <<>>
    /\ final_messages' = <<>>
    /\ exc' = "none"
    /\ result' = NoResult
    /\ UNCHANGED taskVars

\* ------------------------------------------------------------------------
\* send_slack_message.  The message text does not steer the call and is
\* not kept; one Slack tool call is in flight at a time.
\* ------------------------------------------------------------------------
SendRest == <<count, raw_content, combined_response, clean_messages,
              unique_messages, final_messages>>

\* the call with a channel outside allowed_channels, up to its await of
\* session.say(error_message)
SendInvalidChannel(ch) ==
    /\ pc = "idle"
    /\ ~ValidChannel(ch)
    /\ channel' = ch
    /\ pc' = "send_invalid_say"
    /\ UNCHANGED <<exit_stack, events, exc, result>>
    /\ UNCHANGED SendRest
    /\ UNCHANGED taskVars

\* return error_message
SendInvalidReturn ==
    /\ pc = "send_invalid_say"
    /\ result' = [kind |-> "invalid_channel", channel |-> channel,
                  body |-> <<>>]
    /\ pc' = "send_returned"
    /\ UNCHANGED <<channel, exit_stack, events, exc>>
    /\ UNCHANGED SendRest
    /\ UNCHANGED taskVars

\* the call with an allowed channel, up to its await of the announcement
SendBegin(ch) ==
    /\ pc = "idle"
    /\ ValidChannel(ch)
    /\ channel' = ch
    /\ pc' = "send_announce"
    /\ UNCHANGED <<exit_stack, events, exc, result>>
    /\ UNCHANGED SendRest
    /\ UNCHANGED taskVars

\* from the announcement to 'await get_slack_agent_async()'
SendPrepare ==
    /\ pc = "send_announce"
    /\ pc' = "send_connecting"
    /\ UNCHANGED <<channel, exit_stack, events, exc, result>>
    /\ UNCHANGED SendRest
    /\ UNCHANGED taskVars

\* get_slack_agent_async() returns; the runner is created and started
SendConnectOk ==
    /\ pc = "send_connecting"
    /\ exit_stack' = "open"
    /\ pc' = "send_streaming"
    /\ UNCHANGED <<channel, events, exc, result>>
    /\ UNCHANGED SendRest
    /\ UNCHANGED taskVars

\* get_slack_agent_async() raises
SendConnectFail ==
    /\ pc = "send_connecting"
    /\ exc' = "connect"
    /\ pc' = IF Catches("connect") THEN "send_handler" ELSE "raised"
    /\ UNCHANGED <<channel, exit_stack, events, result>>
    /\ UNCHANGED SendRest
    /\ UNCHANGED taskVars

\* one iteration of 'async for event in events_async': the event is logged
SendStreamEvent ==
    /\ pc = "send_streaming"
    /\ events < MaxEvents
    /\ events' = events + 1
    /\ UNCHANGED <<pc, channel, exit_stack, exc, result>>
    /\ UNCHANGED SendRest
    /\ UNCHANGED taskVars

\* the event stream raises
SendStreamFail ==
    /\ pc = "send_streaming"
    /\ exc' = "stream"
    /\ pc' = IF Catches("stream") THEN "send_handler" ELSE "raised"
    /\ UNCHANGED <<channel, exit_stack, events, result>>
    /\ UNCHANGED SendRest
    /\ UNCHANGED taskVars

\* the event stream is exhausted
SendStreamEnd ==
    /\ pc = "send_streaming"
    /\ pc' = "send_closing"
    /\ UNCHANGED <<channel, exit_stack, events, exc, result>>
    /\ UNCHANGED SendRest
    /\ UNCHANGED taskVars

\* await exit_stack.aclose() returns; the call awaits the confirmation
SendCloseOk ==
    /\ pc = "send_closing"
    /\ exit_stack' = "closed"
    /\ pc' = "send_confirm"
    /\ UNCHANGED <<channel, events, exc, result>>
    /\ UNCHANGED SendRest
    /\ UNCHANGED taskVars

\* await exit_stack.aclose() raises; the stack has unwound
SendCloseFail ==
    /\ pc = "send_closing"
    /\ exit_stack' = "closed"
    /\ exc' = "close"
    /\ pc' = IF Catches("close") THEN "send_handler" ELSE "raised"
    /\ UNCHANGED <<channel, events, result>>
    /\ UNCHANGED SendRest
    /\ UNCHANGED taskVars

\* return result ("Message sent to Slack")
SendReturn ==
    /\ pc = "send_confirm"
    /\ result' = [kind |-> "sent", channel |-> channel, body |-> <<>>]
    /\ pc' = "send_returned"
    /\ UNCHANGED <<channel, exit_stack, events, exc>>
    /\ UNCHANGED SendRest
    /\ UNCHANGED taskVars

\* the except block: log, say, return error_message
SendHandler ==
    /\ pc = "send_handler"
    /\ result' = [kind |-> "error", channel |-> channel, body |-> <<>>]
    /\ pc' = "send_returned"
    /\ UNCHANGED <<channel, exit_stack, events, exc>>
    /\ UNCHANGED SendRest
    /\ UNCHANGED taskVars

\* the caller has the result; the call's locals are gone
SendDone ==
    /\ pc = "send_returned"
    /\ pc' = "idle"
    /\ channel' = ""
    /\ exit_stack' = "none"
    /\ events' = 0
    /\ exc' = "none"
    /\ result' = NoResult
    /\ UNCHANGED SendRest
    /\ UNCHANGED taskVars

\* ------------------------------------------------------------------------
\* Specifications
\* ------------------------------------------------------------------------
Next ==
    \/ \E ch \in Channels, cnt \in Counts : ReadInvalidChannel(ch, cnt)
    \/ \E ch \in Channels, cnt \in Counts : ReadBegin(ch, cnt)
    \/ ConnectOk
    \/ ConnectFail
    \/ \E text \in Fragments : StreamEvent(text)
    \/ StreamEventNoContent
    \/ StreamFail
    \/ StreamEnd
    \/ CloseOk
    \/ CloseFail
    \/ Extract
    \/ Handler
    \/ ReadDone
    \/ \E ch \in Channels : SendInvalidChannel(ch)
    \/ SendInvalidReturn
    \/ \E ch \in Channels : SendBegin(ch)
    \/ SendPrepare
    \/ SendConnectOk
    \/ SendConnectFail
    \/ SendStreamEvent
    \/ SendStreamFail
    \/ SendStreamEnd
    \/ SendCloseOk
    \/ SendCloseFail
    \/ SendReturn
    \/ SendHandler
    \/ SendDone

Spec == Init /\ [][Next]_vars

TaskNext ==
    \/ \E c \in Callers, task \in TaskTexts : AddTask(c, task)
    \/ \E c \in Callers : AddTaskReturn(c)
    \/ \E c \in Callers, index \in Indices(tasks) : RemoveTask(c, index)
    \/ \E c \in Callers : RemoveTaskReturn(c)
    \/ \E c \in Callers : RemoveTaskInvalidReturn(c)
    \/ \E c \in Callers : CheckTasks(c)
    \/ \E c \in Callers : CheckTasksReturn(c)

TaskSpec == Init /\ [][TaskNext]_vars

\* ------------------------------------------------------------------------
\* Properties
\* ------------------------------------------------------------------------
\* the read call has returned from the extraction (not from the channel
\* check and not from the except block)
Extracted == pc = "returned" /\ result.kind \in {"sentinel", "messages"}

Listed == pc = "returned" /\ result.kind = "messages"

\* the speaker of a formatted entry: the text before its first ':'
Speaker(entry) == SubSeq(entry, 1, StopAt(entry, 1, {Colon}) - 1)

FirstIndex(s, x) == Min({k \in 1..Len(s) : s[k] = x})

MatchingFamilies(text) == {p \in 1..NumPatterns : FindAll(p, text) # <<>>}

\* C1: when some pattern family matches the combined text, the candidates
\* of the call are exactly the entries of the first family that matches;
\* no later family contributes.
C1_SingleFamily ==
    Extracted =>
        LET fams == MatchingFamilies(combined_response)
        IN  fams # {} =>
                clean_messages =
                    EntriesOf(FindAll(Min(fams), combined_response))

\* C2: the number of entries returned (final_messages) is at most count.
C2_AtMostCount ==
    Listed => Len(final_messages) <= count

C2_Witness ==
    /\ Listed
    /\ Len(unique_messages) > count
    /\ Len(final_messages) = count

\* C3: no two returned entries are textually identical, every entry is one
\* of the extracted candidates, and the entries stand in the order of their
\* first occurrence among the candidates.
C3_NoDuplicatesFirstOccurrence ==
    Listed =>
        /\ \A k \in 1..Len(final_messages) :
               final_messages[k] \in Range(clean_messages)
        /\ \A i, j \in 1..Len(final_messages) :
               i < j =>
                   /\ final_messages[i] # final_messages[j]
                   /\ FirstIndex(clean_messages, final_messages[i])
                          < FirstIndex(clean_messages, final_messages[j])

C3_Witness ==
    /\ Listed
    /\ Len(clean_messages) > Len(unique_messages)
    /\ Len(final_messages) >= 2

\* C4: no returned entry has as its speaker a token of the opaque-ID shape
\* (U followed by 8 or more characters of A-Z, 0-9), on any extraction path.
C4_NoOpaqueSpeaker ==
    Listed =>
        \A k \in 1..Len(final_messages) :
            ~IdShape(Strip(Speaker(final_messages[k])))

\* C5: the sentinel is returned exactly when neither the pattern families
\* nor the line fallback produce a candidate (in particular for a text
\* without ':'), and a returned list of messages is never empty.
C5_SentinelIffNoCandidate ==
    Extracted =>
        /\ result.kind = "sentinel" <=>
               /\ \A p \in 1..NumPatterns :
                      FindAll(p, combined_response) = <<>>
               /\ \A k \in 1..Len(SplitLines(combined_response)) :
                      ~LineQualifies(SplitLines(combined_response)[k])
        /\ (\A k \in 1..Len(combined_response) :
                combined_response[k] # Colon) => result.kind = "sentinel"
        /\ result.kind = "messages" =>
               final_messages # <<>> /\ result.body # <<>>

C5_Witness ==
    /\ Extracted
    /\ result.kind = "sentinel"
    /\ \E k \in 1..Len(combined_response) : combined_response[k] = Colon

C7_NumberedListExample ==
    (pc = "returned" /\ raw_content = <<FragNumbered>>) =>
        /\ result.kind = "messages"
        /\ final_messages = Take(<<EntryCarol, EntryDave>>, count)

\* C8: for the lines 'Alice: good morning\nBob: good morning' every line
\* yields its own entry, in line order.
C8_NameLinesExample ==
    (pc = "returned" /\ raw_content = <<FragLines>>) =>
        /\ result.kind = "messages"
        /\ final_messages = Take(<<EntryAlice, EntryBob>>, count)

\* C9: extracting again from the formatted output (the entries joined one
\* per line) with the same count gives the same set of entries, except for
\* what a second truncation drops.
C9_Idempotent ==
    Listed =>
        LET again == UniqueMessages(CleanMessages(JoinLines(final_messages)))
        IN  /\ Range(Take(again, count)) \subseteq Range(final_messages)
            /\ Len(again) <= count =>
                   Range(Take(again, count)) = Range(final_messages)

\* C10: remove_task with an index outside 1..len(tasks) leaves the list
\* unchanged and returns 'Invalid task index'; with an index inside it
\* removes exactly the task at that 1-based position; the list always holds
\* the surviving tasks in insertion order.
C10_RemoveStep ==
    \A c \in Callers :
        (tpc[c] = "idle" /\ tpc'[c] \in {"remove_say", "invalid_say"}) =>
            LET index == tlast'.index
            IN  IF index \in 1..Len(tasks)
                THEN /\ tpc'[c] = "remove_say"
                     /\ tlocal'[c] = tasks[index].text
                     /\ tasks' = SubSeq(tasks, 1, index - 1)
                                     \o SubSeq(tasks, index + 1, Len(tasks))
                ELSE /\ tpc'[c] = "invalid_say"
                     /\ tasks' = tasks

C10_InvalidReturn ==
    \A c \in Callers :
        (tpc[c] = "invalid_say" /\ tpc'[c] = "idle") =>
            tlast'.ret = "Invalid task index" /\ tasks' = tasks

C10_InsertionOrder ==
    \A i, j \in 1..Len(tasks) : i < j => tasks[i].n < tasks[j].n

C10_RemoveTask ==
    /\ [][C10_RemoveStep /\ C10_InvalidReturn]_vars
    /\ []C10_InsertionOrder

\* a task was just removed from between two tasks that are still in the list
C10_Witness ==
    /\ tlast.index >= 2
    /\ Len(tasks) >= tlast.index
    /\ \E c \in Callers : tpc[c] = "remove_say"

\* C11: send_slack_message and read_slack_messages called with a channel
\* outside mcptest, general, random return the 'Invalid channel' message
\* and, in that call, never open the Slack agent connection, never run the
\* agent and never receive an event from it.
C11_InvalidChannelNoAgent ==
    (pc # "idle" /\ channel \notin {"mcptest", "general", "random"}) =>
        /\ pc \in {"returned", "send_invalid_say", "send_returned"}
        /\ exit_stack = "none"
        /\ events = 0
        /\ exc = "none"
        /\ pc \in {"returned", "send_returned"} =>
               result.kind = "invalid_channel" /\ result.channel = channel

C11_Witness ==
    /\ pc = "send_returned"
    /\ channel = "secret"
    /\ result.kind = "invalid_channel"

\* the message of a formatted entry: the text after its first ': '
Message(entry) ==
    SubSeq(entry, StopAt(entry, 1, {Colon}) + 2, Len(entry))

Colons(s) == Cardinality({k \in 1..Len(s) : s[k] = Colon})

\* C12: in every returned entry, whichever path extracted it, neither the
\* speaker part nor the message part has leading or trailing whitespace.
C12_PartsTrimmed ==
    Listed =>
        \A k \in 1..Len(final_messages) :
            /\ Speaker(final_messages[k]) = Strip(Speaker(final_messages[k]))
            /\ Message(final_messages[k]) = Strip(Message(final_messages[k]))

C14_ClosedBeforeReturn ==
    pc \in {"returned", "send_returned"} => exit_stack # "open"

Tags(list) == {list[k].n : k \in 1..Len(list)}

\* C15: under every interleaving of add_task, remove_task and check_tasks
\* calls that suspend only at their say, remove_task never pops outside the
\* list, the list shrinks only in the step that made the bounds check, and
\* the task that step removes is the one that stood at the requested
\* position when the check was made; a call that resumes after its say
\* does not touch the list.
C15_NoIndexError ==
    \A c \in Callers : tpc[c] # "raised"

C15_Step ==
    /\ Len(tasks') < Len(tasks) =>
           \E c \in Callers :
               /\ tpc[c] = "idle"
               /\ tpc'[c] = "remove_say"
               /\ \A d \in Callers \ {c} : tpc'[d] = tpc[d]
               /\ tlast'.index \in 1..Len(tasks)
               /\ tlocal'[c] = tasks[tlast'.index].text
               /\ Tags(tasks') = Tags(tasks) \ {tasks[tlast'.index].n}
    /\ \A c \in Callers :
           (tpc[c] # "idle" /\ tpc'[c] = "idle") => tasks' = tasks

C15_AtomicRemove ==
    /\ [][C15_Step]_vars
    /\ []C15_NoIndexError

\* two remove_task calls are suspended at their say together, each having
\* removed its task
C15_Witness ==
    /\ \A c \in Callers : tpc[c] = "remove_say"
    /\ Len(tasks) >= 1

====
